---- MODULE Spec2Model ----
(***************************************************************************)
(* Model of src/uc2/utils/binutils.py: the struct-based integer codecs,   *)
(* get_chunk_size, dib_to_bmp and bmp_to_dib.                              *)
(*                                                                         *)
(* A byte buffer is a sequence over 0..255.  A Python int is unbounded;    *)
(* the values met here reach 2^34, beyond the integers TLC computes with,  *)
(* so a Python int n is kept as the pair <<hi, lo>> with                   *)
(* n = hi * 65536 + lo and 0 <= lo < 65536 (hi < 0 for a negative n).      *)
(* The pair of a given n is unique, so equality of pairs is equality of    *)
(* the ints.                                                               *)
(*                                                                         *)
(* Every function returns a record [err, bytes, val]: err is TRUE when     *)
(* the call raises (struct.error) and then nothing is returned.            *)
(***************************************************************************)
EXTENDS Integers, Sequences, FiniteSets

VARIABLES fn, buf, val, be, pc, res, back

vars == <<fn, buf, val, be, pc, res, back>>

\* ------------------------------------------------------------------ bounds

\* Bytes of pixel payload that follow byte 36 of the largest DIB drawn.
MaxExtra == 2

\* The small values 0..MaxSmall are drawn next to the range boundaries.
MaxSmall == 2

\* ------------------------------------------------------- Python ints, bytes

Base == 256 * 256

Min(a, b) == IF a <= b THEN a ELSE b

\* The pair of hi * Base + lo for any integers hi, lo (carry or borrow into hi).
Norm(hi, lo) == <<hi + (lo \div Base), lo % Base>>

Add(a, b) == Norm(a[1] + b[1], a[2] + b[2])

AddSmall(a, n) == Norm(a[1], a[2] + n)

MulSmall(a, n) == Norm(a[1] * n, a[2] * n)

Leq(a, b) == a[1] < b[1] \/ (a[1] = b[1] /\ a[2] <= b[2])

\* The plain integer of a pair that fits 16 bits signed or unsigned.
Small(a) == a[1] * Base + a[2]

RECURSIVE Pow2(_)
Pow2(n) == IF n = 0 THEN 1 ELSE 2 * Pow2(n - 1)

\* floor(log2 n) of a Python int n >= 1 that is below 2^32.
Log2(a) ==
  LET l16(n) == CHOOSE e \in 0..15 : Pow2(e) <= n /\ n < 2 * Pow2(e)
  IN IF a[1] > 0 THEN 16 + l16(a[1]) ELSE l16(a[2])

\* Python's s[a:b] for 0 <= a <= b: the slice is cut to the buffer, never an error.
PySlice(s, a, b) == SubSeq(s, a + 1, Min(b, Len(s)))

\* Python's s[a:].
PyTail(s, a) == SubSeq(s, a + 1, Len(s))

\* ----------------------------------------------------------- call results

Zero == <<0, 0>>

Raise == [err |-> TRUE, bytes |-> <<>>, val |-> Zero]

RetBytes(b) == [err |-> FALSE, bytes |-> b, val |-> Zero]

RetVal(v) == [err |-> FALSE, bytes |-> <<>>, val |-> v]

NoResult == [err |-> FALSE, bytes |-> <<>>, val |-> Zero]

\* ------------------------------------------------------------ struct module

\* The two bytes of a 16-bit limb, in the order the endianness gives.
LimbBytes(x, bigend) ==
  IF bigend THEN <<x \div 256, x % 256>> ELSE <<x % 256, x \div 256>>

\* Mutant of LimbOf: the byte order flag is ignored when decoding.
LimbOfLittleOnly(b, bigend) == b[2] * 256 + b[1]

LimbOf(b, bigend) ==
  IF bigend THEN b[1] * 256 + b[2] ELSE b[2] * 256 + b[1]

\* struct.unpack of one integer: formats B (width 1), H/h (2), I/i (4), with the
\* byte order '<' or '>'.  A buffer of another length raises struct.error.
struct_unpack(width, signed, bigend, data) ==
  IF Len(data) # width THEN Raise
  ELSE IF width = 1 THEN RetVal(<<0, data[1]>>)
  ELSE IF width = 2 THEN
    LET u == LimbOf(data, bigend)
    IN RetVal(IF signed /\ u >= 32768 THEN <<-1, u>> ELSE <<0, u>>)
  ELSE
    LET hi == IF bigend THEN LimbOf(SubSeq(data, 1, 2), TRUE)
                        ELSE LimbOf(SubSeq(data, 3, 4), FALSE)
        lo == IF bigend THEN LimbOf(SubSeq(data, 3, 4), TRUE)
                        ELSE LimbOf(SubSeq(data, 1, 2), FALSE)
    IN RetVal(IF signed /\ hi >= 32768 THEN <<hi - Base, lo>> ELSE <<hi, lo>>)

\* Mutant of PackFits: the unsigned formats take a value by its low bits, as a C
\* cast would, so a negative or too large value is not refused.
PackFitsUnsignedCast(width, signed, v) ==
  IF width = 1 THEN v[1] = 0 /\ v[2] <= 255
  ELSE IF width = 2 THEN
    IF signed THEN (v[1] = 0 /\ v[2] <= 32767) \/ (v[1] = -1 /\ v[2] >= 32768)
    ELSE TRUE
  ELSE
    IF signed THEN -32768 <= v[1] /\ v[1] <= 32767
    ELSE TRUE

\* Mutant of PackFits: the format I takes values up to 2^34.
PackFitsWideDword(width, signed, v) ==
  IF width = 1 THEN v[1] = 0 /\ v[2] <= 255
  ELSE IF width = 2 THEN
    IF signed THEN (v[1] = 0 /\ v[2] <= 32767) \/ (v[1] = -1 /\ v[2] >= 32768)
    ELSE v[1] = 0
  ELSE
    IF signed THEN -32768 <= v[1] /\ v[1] <= 32767
    ELSE 0 <= v[1] /\ v[1] <= 4 * 65535 + 3

\* Whether struct.pack accepts v for the format: v is within the format's range.
PackFits(width, signed, v) ==
  IF width = 1 THEN v[1] = 0 /\ v[2] <= 255
  ELSE IF width = 2 THEN
    IF signed THEN (v[1] = 0 /\ v[2] <= 32767) \/ (v[1] = -1 /\ v[2] >= 32768)
    ELSE v[1] = 0
  ELSE
    IF signed THEN -32768 <= v[1] /\ v[1] <= 32767
    ELSE 0 <= v[1] /\ v[1] <= 65535

\* struct.pack of one integer; a value outside the format's range raises struct.error.
struct_pack(width, signed, bigend, v) ==
  IF ~PackFits(width, signed, v) THEN Raise
  ELSE IF width = 1 THEN RetBytes(<<v[2]>>)
  ELSE IF width = 2 THEN RetBytes(LimbBytes(v[2], bigend))
  ELSE
    LET hi == v[1] % Base
    IN RetBytes(IF bigend THEN LimbBytes(hi, TRUE) \o LimbBytes(v[2], TRUE)
                ELSE LimbBytes(v[2], FALSE) \o LimbBytes(hi, FALSE))

\* ----------------------------------------------------------- integer codecs

byte2py_int(data) == struct_unpack(1, FALSE, FALSE, data)

py_int2byte(v) == struct_pack(1, FALSE, FALSE, v)

word2py_int(data, bigend) == struct_unpack(2, FALSE, bigend, data)

signed_word2py_int(data, bigend) == struct_unpack(2, TRUE, bigend, data)

py_int2word(v, bigend) == struct_pack(2, FALSE, bigend, v)

py_int2signed_word(v, bigend) == struct_pack(2, TRUE, bigend, v)

dword2py_int(data, bigend) == struct_unpack(4, FALSE, bigend, data)

signed_dword2py_int(data, bigend) == struct_unpack(4, TRUE, bigend, data)

py_int2dword(v, bigend) == struct_pack(4, FALSE, bigend, v)

py_int2signed_dword(v, bigend) == struct_pack(4, TRUE, bigend, v)

\* ------------------------------------------------------------ RIFF chunk size

\* Mutant of get_chunk_size: the padded size is kept in 32 bits and wraps to 0.
get_chunk_size_wrapping(size_field) ==
  LET size == dword2py_int(size_field, FALSE)
      padded == IF size.val[2] % 2 = 0 THEN size.val ELSE AddSmall(size.val, 1)
  IN IF size.err THEN Raise
     ELSE RetVal(<<padded[1] % Base, padded[2]>>)

get_chunk_size(size_field) ==
  LET size == dword2py_int(size_field, FALSE)
  IN IF size.err THEN Raise
     ELSE RetVal(IF size.val[2] % 2 = 0 THEN size.val ELSE AddSmall(size.val, 1))

\* --------------------------------------------------- double-precision values

\* A non-negative double as dib_to_bmp meets it: ip is its integer part and frac
\* says whether a non-zero fractional part follows.  math.ceil and the division
\* by 4.0 (exact: a power of two) depend on nothing else.
IntToFloat(a) == [ip |-> a, frac |-> FALSE]

\* Mutant of PowTimes3: four bytes for each palette entry.
PowTimes4(bpp) ==
  IF bpp >= 0 THEN [ip |-> <<0, Pow2(bpp) * 4>>, k |-> 0]
  ELSE IF bpp = -1 THEN [ip |-> <<0, 2>>, k |-> 0]
  ELSE IF bpp >= -1074 THEN [ip |-> Zero, k |-> -bpp]
  ELSE [ip |-> Zero, k |-> 0]

\* math.pow(2, bpp) * 3 for bpp <= 8, as [ip, k]: the value is ip + a fraction whose
\* lowest set bit is 2^-k (k = 0: no fraction).  2^bpp * 3 is exact for 0 <= bpp;
\* 2^-1 * 3 is 1.5; 2^-k * 3 is below 1 for k >= 2; math.pow underflows to 0.0
\* below the smallest subnormal 2^-1074 and raises nothing.
PowTimes3(bpp) ==
  IF bpp >= 0 THEN [ip |-> <<0, Pow2(bpp) * 3>>, k |-> 0]
  ELSE IF bpp = -1 THEN [ip |-> <<0, 1>>, k |-> 1]
  ELSE IF bpp >= -1074 THEN [ip |-> Zero, k |-> -bpp]
  ELSE [ip |-> Zero, k |-> 0]

\* offset + p for the int offset (below 2^32) and the double p of PowTimes3: the
\* sum is rounded to 53 significant bits.  With e = floor(log2 offset) the
\* fraction 3 * 2^-k is below half an ulp 2^(e-53), and is rounded away, exactly
\* when k > 54 - e; a fraction that is kept never rounds up to the next integer.
FloatAdd(offset, p) ==
  LET absorbed == p.k >= 2 /\ offset # Zero /\ p.k > 54 - Log2(offset)
  IN [ip |-> Add(offset, p.ip), frac |-> p.k > 0 /\ ~absorbed]

\* Mutant of CeilQuad: the offset is rounded down to a multiple of 4.
FloorQuad(o) == AddSmall(o.ip, 0 - (o.ip[2] % 4))

\* math.ceil(offset / 4.0) * 4: the least multiple of 4 that is >= offset.
CeilQuad(o) ==
  IF o.frac THEN AddSmall(o.ip, 4 - (o.ip[2] % 4))
  ELSE AddSmall(o.ip, (4 - (o.ip[2] % 4)) % 4)

\* ---------------------------------------------------------- bitmap transcoder

\* Mutant of bmp_file: the four reserved zero bytes are left out.
bmp_file_unreserved(dib, offset) ==
  LET rounded == CeilQuad(offset)
      pixel_offset == struct_pack(4, FALSE, FALSE, AddSmall(rounded, 14))
      file_size == struct_pack(4, FALSE, FALSE, Norm(0, 14 + Len(dib)))
  IN IF pixel_offset.err \/ file_size.err THEN Raise
     ELSE RetBytes(<<66, 77>> \o file_size.bytes \o pixel_offset.bytes \o dib)

\* Mutant of bmp_file: the file size leaves out the 14 bytes of the file header.
bmp_file_dib_size(dib, offset) ==
  LET rounded == CeilQuad(offset)
      pixel_offset == struct_pack(4, FALSE, FALSE, AddSmall(rounded, 14))
      file_size == struct_pack(4, FALSE, FALSE, Norm(0, Len(dib)))
  IN IF pixel_offset.err \/ file_size.err THEN Raise
     ELSE RetBytes(<<66, 77>> \o file_size.bytes \o <<0, 0, 0, 0>>
                   \o pixel_offset.bytes \o dib)

\* Lines 249-253: the rounding of the offset and the 14-byte file header.
bmp_file(dib, offset) ==
  LET rounded == CeilQuad(offset)
      pixel_offset == struct_pack(4, FALSE, FALSE, AddSmall(rounded, 14))
      file_size == struct_pack(4, FALSE, FALSE, Norm(0, 14 + Len(dib)))
  IN IF pixel_offset.err \/ file_size.err THEN Raise
     ELSE RetBytes(<<66, 77>> \o file_size.bytes \o <<0, 0, 0, 0>>
                   \o pixel_offset.bytes \o dib)

\* Raised inside a branch of dib_to_bmp, before any offset is known.
NoOffset == [err |-> TRUE, off |-> IntToFloat(Zero)]

Offset(o) == [err |-> FALSE, off |-> o]

\* Lines 238-241: the branch dib_header_size == 12.
legacy_offset(dib, dib_header_size) ==
  LET bits == struct_unpack(2, TRUE, FALSE, PySlice(dib, 10, 12))
  IN IF bits.err THEN NoOffset
     ELSE LET bitsperpixel == Small(bits.val)
     IN IF ~(bitsperpixel > 8)
          THEN Offset(FloatAdd(dib_header_size, PowTimes3(bitsperpixel)))
          ELSE Offset(IntToFloat(dib_header_size))

\* Mutant of modern_offset: colorsnum is read only where it is used, so a buffer
\* that ends before offset 36 passes when bitsperpixel <= 8.
modern_offset_lazy(dib, dib_header_size) ==
  LET bits == struct_unpack(2, TRUE, FALSE, PySlice(dib, 14, 16))
      colors == struct_unpack(4, FALSE, FALSE, PySlice(dib, 32, 36))
  IN IF bits.err THEN NoOffset
     ELSE LET bitsperpixel == Small(bits.val)
     IN IF bitsperpixel > 8
          THEN IF colors.err THEN NoOffset
               ELSE Offset(IntToFloat(Add(dib_header_size, MulSmall(colors.val, 3))))
          ELSE Offset(FloatAdd(dib_header_size, PowTimes3(bitsperpixel)))

\* Lines 242-248: the else branch, taken for every other dib_header_size.
modern_offset(dib, dib_header_size) ==
  LET bits == struct_unpack(2, TRUE, FALSE, PySlice(dib, 14, 16))
      colors == struct_unpack(4, FALSE, FALSE, PySlice(dib, 32, 36))
  IN IF bits.err \/ colors.err THEN NoOffset
     ELSE LET bitsperpixel == Small(bits.val)
              colorsnum == colors.val
     IN IF bitsperpixel > 8
          THEN Offset(IntToFloat(Add(dib_header_size, MulSmall(colorsnum, 3))))
          ELSE Offset(FloatAdd(dib_header_size, PowTimes3(bitsperpixel)))

dib_to_bmp(dib) ==
  LET header == struct_unpack(4, FALSE, FALSE, PySlice(dib, 0, 4))
  IN IF header.err THEN Raise
     ELSE LET dib_header_size == header.val
              offset == IF dib_header_size = <<0, 12>>
                          THEN legacy_offset(dib, dib_header_size)
                          ELSE modern_offset(dib, dib_header_size)
     IN IF offset.err THEN Raise ELSE bmp_file(dib, offset.off)

\* Mutant of bmp_to_dib: the slice starts one byte early.
bmp_to_dib_from13(bmp) == RetBytes(PyTail(bmp, 13))

bmp_to_dib(bmp) == RetBytes(PyTail(bmp, 14))

\* ------------------------------------------------------------------ inputs

\* A byte that depends on its position, for the bytes no field is read from.
Filler(i) == (37 * i + 11) % 256

FillerSeq(from, n) == [i \in 1..n |-> Filler(from + i)]

U32Bytes(v) == struct_pack(4, FALSE, FALSE, v).bytes

S16Bytes(n) == struct_pack(2, TRUE, FALSE, Norm(0, n)).bytes

\* Values of the first four bytes: unrecognised sizes, the legacy 12, modern sizes,
\* 12 in the low byte only, and sizes next to 2^32.
HeaderSizes ==
  { <<0, 0>>, <<0, 12>>, <<0, 16>>, <<0, 39>>, <<0, 40>>, <<0, 43>>, <<0, 124>>,
    <<256, 12>>, <<65535, 65516>>, <<65535, 65520>>, <<65535, 65521>>, <<65535, 65535>> }

\* <<the signed word at offset 10, the signed word at offset 14>>.
BitsPairs ==
  { <<a, 24>> : a \in {-32768, -52, -51, -2, -1, 0, 1, 8, 9} \cup 2..(2 + MaxSmall) }
  \cup { <<1, b>> : b \in {-1075, -1074, -24, -23, -1, 0, 1, 4, 8, 9, 24, 32767} }

\* Values of the dword at offset 32; 3 * <<21845, 21845>> = 2^32 - 1.
ColorCounts == { <<0, 0>>, <<0, 1>>, <<0, 2>>, <<0, 256>>, <<21845, 21845>>, <<65535, 65535>> }

DibLen == 36 + MaxExtra

FullDib(h, bits, c) ==
  U32Bytes(h) \o FillerSeq(4, 6) \o S16Bytes(bits[1]) \o FillerSeq(12, 2)
  \o S16Bytes(bits[2]) \o FillerSeq(16, 16) \o U32Bytes(c) \o FillerSeq(36, MaxExtra)

\* Every prefix, the empty one included, of every full DIB.
DibInputs ==
  { PySlice(FullDib(h, bits, c), 0, n) :
      h \in HeaderSizes, bits \in BitsPairs, c \in ColorCounts, n \in 0..DibLen }

BmpInputs ==
  { FillerSeq(s, n) : s \in 0..MaxSmall, n \in 0..(16 + MaxExtra) }

ByteSamples == {0, 1, 2, 127, 128, 254, 255}

ChunkInputs ==
  { <<a, b, c, d>> : a \in ByteSamples, b \in {0, 255}, c \in {0, 1, 255}, d \in ByteSamples }
  \cup { FillerSeq(0, n) : n \in 0..(5 + MaxSmall) }

LimbSamples == (0..MaxSmall) \cup {127, 128, 255, 256, 32767, 32768, 65534, 65535}

HiSamples == {-32769, -32768, -2, -1, 0, 1, 32767, 32768, 65535, 65536}

IntInputs == { <<hi, lo>> : hi \in HiSamples, lo \in LimbSamples }

Encoders ==
  {"py_int2byte", "py_int2word", "py_int2signed_word", "py_int2dword", "py_int2signed_dword"}

\* -------------------------------------------------------------- state machine

\* A call is drawn: the function, and its arguments among buf, val and be.
Init ==
  /\ pc = "call"
  /\ res = NoResult
  /\ back = NoResult
  /\ \/ fn = "dib_to_bmp" /\ buf \in DibInputs /\ val = Zero /\ be = FALSE
     \/ fn = "bmp_to_dib" /\ buf \in BmpInputs /\ val = Zero /\ be = FALSE
     \/ fn = "get_chunk_size" /\ buf \in ChunkInputs /\ val = Zero /\ be = FALSE
     \/ fn \in Encoders /\ buf = <<>> /\ val \in IntInputs /\ be \in BOOLEAN

Return(f, r) ==
  /\ pc = "call"
  /\ fn = f
  /\ res' = r
  /\ pc' = "returned"
  /\ UNCHANGED <<fn, buf, val, be, back>>

\* The caller hands the bytes returned to the inverse function.
Chain(f, r) ==
  /\ pc = "returned"
  /\ fn = f
  /\ ~res.err
  /\ back' = r
  /\ pc' = "chained"
  /\ UNCHANGED <<fn, buf, val, be, res>>

CallDibToBmp == Return("dib_to_bmp", dib_to_bmp(buf))

CallBmpToDib == Return("bmp_to_dib", bmp_to_dib(buf))

CallGetChunkSize == Return("get_chunk_size", get_chunk_size(buf))

CallPyInt2Byte == Return("py_int2byte", py_int2byte(val))

CallPyInt2Word == Return("py_int2word", py_int2word(val, be))

CallPyInt2SignedWord == Return("py_int2signed_word", py_int2signed_word(val, be))

CallPyInt2Dword == Return("py_int2dword", py_int2dword(val, be))

CallPyInt2SignedDword == Return("py_int2signed_dword", py_int2signed_dword(val, be))

BmpToDibOfResult == Chain("dib_to_bmp", bmp_to_dib(res.bytes))

Byte2PyIntOfResult == Chain("py_int2byte", byte2py_int(res.bytes))

Word2PyIntOfResult == Chain("py_int2word", word2py_int(res.bytes, be))

SignedWord2PyIntOfResult == Chain("py_int2signed_word", signed_word2py_int(res.bytes, be))

Dword2PyIntOfResult == Chain("py_int2dword", dword2py_int(res.bytes, be))

SignedDword2PyIntOfResult == Chain("py_int2signed_dword", signed_dword2py_int(res.bytes, be))

Next ==
  \/ CallDibToBmp
  \/ CallBmpToDib
  \/ CallGetChunkSize
  \/ CallPyInt2Byte
  \/ CallPyInt2Word
  \/ CallPyInt2SignedWord
  \/ CallPyInt2Dword
  \/ CallPyInt2SignedDword
  \/ BmpToDibOfResult
  \/ Byte2PyIntOfResult
  \/ Word2PyIntOfResult
  \/ SignedWord2PyIntOfResult
  \/ Dword2PyIntOfResult
  \/ SignedDword2PyIntOfResult

Spec == Init /\ [][Next]_vars

\* ------------------------------------------------------ reading the buffers

Returned == pc # "call"

U16At(s, off) == s[off + 1] + 256 * s[off + 2]

S16At(s, off) == IF U16At(s, off) >= 32768 THEN U16At(s, off) - Base ELSE U16At(s, off)

U32At(s, off) == <<U16At(s, off + 2), U16At(s, off)>>

\* The fields of a DIB as the format defines them (buffers of 4, 12 or 36 bytes at least).
HeaderSize(d) == U32At(d, 0)

IsLegacy(d) == HeaderSize(d) = <<0, 12>>

BitsPerPixel(d) == IF IsLegacy(d) THEN S16At(d, 10) ELSE S16At(d, 14)

ColorsUsed(d) == U32At(d, 32)

\* Long enough for every field its layout reads.
LongEnough(d) ==
  /\ Len(d) >= 4
  /\ IF IsLegacy(d) THEN Len(d) >= 12 ELSE Len(d) >= 36

\* The palette size in bytes for bits_per_pixel >= 0, in exact integer arithmetic.
PaletteSize(d) ==
  IF IsLegacy(d)
    THEN IF BitsPerPixel(d) <= 8 THEN <<0, Pow2(BitsPerPixel(d)) * 3>> ELSE Zero
    ELSE IF BitsPerPixel(d) > 8 THEN MulSmall(ColorsUsed(d), 3)
         ELSE <<0, Pow2(BitsPerPixel(d)) * 3>>

RoundUp4(a) == IF a[2] % 4 = 0 THEN a ELSE AddSmall(a, 4 - (a[2] % 4))

\* 14 + (header_size + palette_size) rounded up to a multiple of 4.
PixelOffset(d) == AddSmall(RoundUp4(Add(HeaderSize(d), PaletteSize(d))), 14)

MaxU32 == <<65535, 65535>>

DibCall == fn = "dib_to_bmp" /\ Returned

\* The range of each encoder's width and signedness.
RangeLow(f) ==
  IF f = "py_int2signed_word" THEN <<-1, 32768>>
  ELSE IF f = "py_int2signed_dword" THEN <<-32768, 0>>
  ELSE Zero

RangeHigh(f) ==
  IF f = "py_int2byte" THEN <<0, 255>>
  ELSE IF f = "py_int2word" THEN <<0, 65535>>
  ELSE IF f = "py_int2signed_word" THEN <<0, 32767>>
  ELSE IF f = "py_int2dword" THEN MaxU32
  ELSE <<32767, 65535>>

InRange(f, v) == Leq(RangeLow(f), v) /\ Leq(v, RangeHigh(f))

Width(f) ==
  IF f = "py_int2byte" THEN 1
  ELSE IF f \in {"py_int2word", "py_int2signed_word"} THEN 2
  ELSE 4

\* ------------------------------------------------------------------ claims

\* C1: for every DIB d on which dib_to_bmp returns an output,
\* bmp_to_dib(dib_to_bmp(d)) is exactly d: the same length and the same bytes.
RoundTripReturnsDib ==
  (fn = "dib_to_bmp" /\ pc = "chained") =>
    /\ ~back.err
    /\ Len(back.bytes) = Len(buf)
    /\ back.bytes = buf

\* C1 witness: a modern DIB with pixel payload has gone through both functions.
RoundTripReached ==
  /\ fn = "dib_to_bmp"
  /\ pc = "chained"
  /\ Len(buf) = DibLen
  /\ HeaderSize(buf) = <<0, 40>>
  /\ back.bytes = buf

\* C2: with bits_per_pixel >= 0 the pixel-offset field at bytes 10..13 of the output
\* is 14 + (header_size + palette_size) rounded up to a multiple of 4; header_size 12
\* with 1 bit per pixel gives 34, header_size 40 with 24 bits and no colours gives 54.
PixelOffsetField ==
  (DibCall /\ ~res.err /\ BitsPerPixel(buf) >= 0) =>
    /\ U32At(res.bytes, 10) = PixelOffset(buf)
    /\ (IsLegacy(buf) /\ BitsPerPixel(buf) = 1) => U32At(res.bytes, 10) = <<0, 34>>
    /\ (HeaderSize(buf) = <<0, 40>> /\ BitsPerPixel(buf) = 24 /\ ColorsUsed(buf) = Zero)
         => U32At(res.bytes, 10) = <<0, 54>>

\* C2 witness: the legacy case whose header region 18 is rounded up to 20.
LegacyOffsetRounded ==
  /\ DibCall
  /\ ~res.err
  /\ IsLegacy(buf)
  /\ BitsPerPixel(buf) = 1
  /\ U32At(res.bytes, 10) = <<0, 34>>

\* C3: the output is "BM", the little-endian 14 + len(d), four zero bytes, the pixel
\* offset, then d unchanged; its length is 14 + len(d).
FileHeaderLayout ==
  (DibCall /\ ~res.err) =>
    /\ Len(res.bytes) = 14 + Len(buf)
    /\ SubSeq(res.bytes, 1, 2) = <<66, 77>>
    /\ U32At(res.bytes, 2) = <<0, 14 + Len(buf)>>
    /\ SubSeq(res.bytes, 7, 10) = <<0, 0, 0, 0>>
    /\ SubSeq(res.bytes, 15, Len(res.bytes)) = buf

\* C3 witness: an output for a legacy DIB of more than its 12 header bytes.
FileHeaderWritten ==
  /\ DibCall
  /\ ~res.err
  /\ IsLegacy(buf)
  /\ Len(buf) > 12
  /\ U32At(res.bytes, 2) = <<0, 14 + Len(buf)>>

\* A header_size that is neither 12 nor >= 40.
Unrecognised(d) == Len(d) >= 4 /\ ~IsLegacy(d) /\ HeaderSize(d)[1] = 0 /\ HeaderSize(d)[2] < 40

\* C4 as claimed: a buffer whose header_size is neither 12 nor >= 40 is rejected
\* with an error and no output, whatever its length.
UnrecognisedHeaderRejected ==
  (DibCall /\ Unrecognised(buf)) => (res.err /\ res.bytes = <<>>)

\* C4 amended: such a buffer is read as the modern layout; it is rejected exactly
\* when it is shorter than 36 bytes or, with more than 8 bits per pixel, when
\* 14 + rounded(header_size + colors_used * 3) exceeds 2^32 - 1.
UnrecognisedHeaderReadAsModern ==
  (DibCall /\ Unrecognised(buf)) =>
    /\ res.err <=> \/ Len(buf) < 36
                   \/ BitsPerPixel(buf) > 8 /\ ~Leq(PixelOffset(buf), MaxU32)
    /\ res.err => res.bytes = <<>>

\* C4 witness: header_size 16 in a buffer of 36 bytes yields an output.
UnrecognisedHeaderAccepted ==
  /\ DibCall
  /\ Len(buf) = 36
  /\ HeaderSize(buf) = <<0, 16>>
  /\ ~res.err
  /\ Len(res.bytes) = 50

\* C5: a buffer shorter than the bytes its layout reads (fewer than 4, fewer than 12
\* when header_size == 12, fewer than 36 otherwise) is rejected with an error and no
\* output.
ShortBufferRejected ==
  (DibCall /\ ~LongEnough(buf)) => (res.err /\ res.bytes = <<>>)

\* C5 witness: a modern header cut one byte before the end of colors_used.
ShortModernRejected ==
  /\ DibCall
  /\ Len(buf) = 35
  /\ HeaderSize(buf) = <<0, 40>>
  /\ res.err

\* C6 as claimed: fewer than 14 bytes are an error; 14 bytes or more return the
\* bytes from offset 14 to the end.
BmpToDibChecksLength ==
  (fn = "bmp_to_dib" /\ Returned) =>
    IF Len(buf) < 14 THEN res.err
    ELSE ~res.err /\ res.bytes = SubSeq(buf, 15, Len(buf))

\* C6 amended: bmp_to_dib never signals an error; it returns the bytes from offset
\* 14 to the end, which is the empty buffer for fewer than 14 bytes.
BmpToDibSlices ==
  (fn = "bmp_to_dib" /\ Returned) =>
    /\ ~res.err
    /\ res.bytes = IF Len(buf) < 14 THEN <<>> ELSE SubSeq(buf, 15, Len(buf))

\* C6 witness: a buffer of 13 bytes returned the empty buffer and no error.
ShortBmpReturnsEmpty ==
  /\ fn = "bmp_to_dib"
  /\ Returned
  /\ Len(buf) = 13
  /\ ~res.err
  /\ res.bytes = <<>>

\* C7: for each integer codec pair, every value in the range of its width and
\* signedness and both endianness flags, the encoded buffer has the stated width
\* and decoding it with the same flag returns the value.
IntegerRoundTrip ==
  (fn \in Encoders /\ InRange(fn, val)) =>
    /\ Returned => (~res.err /\ Len(res.bytes) = Width(fn))
    /\ pc = "chained" => (~back.err /\ back.val = val)

\* C7 witness: a negative dword went through the big-endian signed codec.
SignedDwordRoundTripped ==
  /\ fn = "py_int2signed_dword"
  /\ be
  /\ val = <<-32768, 1>>
  /\ pc = "chained"
  /\ back.val = val

\* C8: every integer encoder rejects a value outside the range of its width and
\* signedness with an error and returns no bytes, for both endianness flags.
EncoderRejectsOutOfRange ==
  (fn \in Encoders /\ Returned /\ ~InRange(fn, val)) => (res.err /\ res.bytes = <<>>)

\* C8 witness: -1 was refused by the big-endian unsigned word encoder.
NegativeWordRejected ==
  /\ fn = "py_int2word"
  /\ be
  /\ val = <<-1, 65535>>
  /\ Returned
  /\ res.err

\* C9: for every 4-byte input, get_chunk_size returns the little-endian unsigned s
\* when s is even and s + 1 when s is odd: even, non-negative, between s and s + 1,
\* and 2^32 for s = 2^32 - 1.
ChunkSizePadded ==
  (fn = "get_chunk_size" /\ Returned /\ Len(buf) = 4) =>
    LET s == U32At(buf, 0)
    IN /\ ~res.err
       /\ res.val = IF s[2] % 2 = 0 THEN s ELSE AddSmall(s, 1)
       /\ res.val[2] % 2 = 0
       /\ Leq(Zero, res.val)
       /\ Leq(s, res.val)
       /\ Leq(res.val, AddSmall(s, 1))
       /\ s = MaxU32 => res.val = <<65536, 0>>

\* C9 witness: the largest field was padded to 2^32.
LargestChunkPadded ==
  /\ fn = "get_chunk_size"
  /\ Returned
  /\ buf = <<255, 255, 255, 255>>
  /\ res.val = <<65536, 0>>

\* A header of a recognised size in a buffer long enough for its layout.
WellFormed(d) ==
  /\ LongEnough(d)
  /\ IsLegacy(d) \/ HeaderSize(d)[1] > 0 \/ HeaderSize(d)[2] >= 40

\* C10 as claimed: dib_to_bmp returns an output for every well-formed header,
\* whatever bits_per_pixel and colors_used are.
TotalOnWellFormed ==
  (DibCall /\ WellFormed(buf)) => ~res.err

\* C10 amended: the legacy layout always returns an output; the modern layout with
\* bits_per_pixel >= 0 returns one exactly when 14 + rounded(header_size +
\* palette_size) is at most 2^32 - 1 and signals an error otherwise; with
\* bits_per_pixel < 0 it returns one when header_size <= 2^32 - 20 and signals an
\* error when header_size > 2^32 - 15.
OutputUnlessOffsetOverflows ==
  (DibCall /\ WellFormed(buf)) =>
    /\ IsLegacy(buf) => ~res.err
    /\ BitsPerPixel(buf) >= 0 => (res.err <=> ~Leq(PixelOffset(buf), MaxU32))
    /\ BitsPerPixel(buf) < 0 =>
         /\ Leq(HeaderSize(buf), <<65535, 65516>>) => ~res.err
         /\ ~Leq(HeaderSize(buf), <<65535, 65521>>) => res.err

\* C10 witness: header_size 2^32 - 1 with 24 bits per pixel in a buffer of 36 bytes
\* is an error, the pixel offset being 2^32 + 14.
OffsetOverflowRaised ==
  /\ DibCall
  /\ Len(buf) = 36
  /\ HeaderSize(buf) = MaxU32
  /\ BitsPerPixel(buf) = 24
  /\ res.err

====
